---- MODULE Spec2Model ----
(***************************************************************************)
(* A model of the aws-notebooks CDK application: the app entry point       *)
(* (bin/app.ts) constructs the stacks one after the other, each stack's    *)
(* constructor declares resources from the handles of the stacks before    *)
(* it, and the declared resources then decide requests: the load           *)
(* balancer's listeners decide HTTP requests, the IAM policy statements    *)
(* decide S3 and Secrets Manager calls, and the security groups decide     *)
(* network flows.                                                          *)
(*                                                                         *)
(* Strings are real strings: a template literal `${a}-${b}` is a \o "-"    *)
(* \o b, and an IAM pattern ending in * is matched as a prefix.            *)
(*                                                                         *)
(* CONFIG is the configuration object of src/unnamed/part_000:38-79 (the   *)
(* one that defines env.account, which StorageStack reads); the app entry  *)
(* point is src/unnamed/part_002. A property a stack reads that CONFIG     *)
(* does not define is JavaScript's undefined, which a template literal     *)
(* renders as the text "undefined".                                        *)
(***************************************************************************)
EXTENDS Naturals, Sequences, FiniteSets, TLC

VARIABLES
    context,      \* the value of the CDK context key 'environment'
    pc,           \* the next statement of bin/app.ts
    environment,  \* app.ts: const environment
    appTags,      \* tags applied with cdk.Tags.of(app)
    network,      \* NetworkStack's resources, or NoStack
    dns,          \* DnsStack's resources, or NoStack
    storage,      \* StorageStack's resources, or NoStack
    iam,          \* SecretsAndIamStack's resources, or NoStack
    compute,      \* ComputeStack's resources, or NoStack
    deps,         \* stack.addDependency edges, <<dependent, dependency>>
    assembly,     \* the stacks of the cloud assembly written by app.synth()
    cookie,       \* whether the browser holds a valid load balancer session
    req,          \* the HTTP request the load balancer is handling, or NoReq
    observed,     \* the last IAM or security group decision
    stacks,       \* the CloudFormation status of each stack in the account
    cloud,        \* the names of the resources that exist in the account
    object        \* the object stored in a bucket of the account, or NoObject

vars == <<context, pc, environment, appTags, network, dns, storage, iam,
          compute, deps, assembly, cookie, req, observed, stacks, cloud, object>>

----------------------------------------------------------------------------
(* Configuration *)

CONFIG ==
    [ projectName     |-> "marimo-platform",
      projectFullName |-> "marimo-platform",
      env  |-> [ account |-> "564175397198", region |-> "eu-west-2" ],
      tags |-> [ Project    |-> "marimo-platform",
                 ManagedBy  |-> "cdk",
                 Owner      |-> "data-team",
                 IaC        |-> "true",
                 Repository |-> "aws-notebooks" ],
      dns  |-> [ hostedZoneId   |-> "Z08606083CKBAN2V5VVVT",
                 hostedZoneName |-> "justmakeit.click",
                 subdomainName  |-> "notebooks" ],
      okta |-> [ issuer |-> "https://integrator-6693679.okta.com/oauth2/default",
                 clientIdSecretArn |->
                   "arn:aws:secretsmanager:eu-west-2:564175397198:secret:marimo-platform/okta/client-id-xz38e2",
                 clientSecretSecretArn |->
                   "arn:aws:secretsmanager:eu-west-2:564175397198:secret:marimo-platform/okta/client-secret-7g2wtE" ],
      storage |-> [ rawDataLifecycle |-> [ transitionToIA          |-> 90,
                                           transitionToGlacier     |-> 180,
                                           transitionToDeepArchive |-> 365 ],
                    scratchSizeGB |-> 2 ] ]

\* `${obj.name}` in a template literal: the property's text, or "undefined"
\* when the object has no such property.
Tpl(obj, name) == IF name \in DOMAIN obj THEN obj[name] ELSE "undefined"

\* The values the context key 'environment' is given on the command line;
\* NoContext is the key left unset.
NoContext == ""
Environments == {"dev", "staging", "prod"}
Contexts == Environments \cup {NoContext}

\* app.node.tryGetContext('environment') || 'dev'
EnvironmentOf(ctx) == IF ctx = NoContext THEN "dev" ELSE ctx

\* `${CONFIG.projectName}-${environment}-${suffix}`
ResourceName(env, suffix) == CONFIG.projectName \o "-" \o env \o "-" \o suffix

NoStack == [ component |-> "none" ]

----------------------------------------------------------------------------
(* String patterns *)

StartsWith(s, p) == Len(p) <= Len(s) /\ SubSeq(s, 1, Len(p)) = p

\* An IAM action or resource pattern. Every pattern the stacks declare is a
\* literal or a literal followed by one *, which matches any rest.
Glob(pat, s) ==
    IF Len(pat) > 0 /\ SubSeq(pat, Len(pat), Len(pat)) = "*"
    THEN StartsWith(s, SubSeq(pat, 1, Len(pat) - 1))
    ELSE s = pat

----------------------------------------------------------------------------
(* NetworkStack *)

AnyIpv4 == [ kind |-> "cidr", ref |-> "0.0.0.0/0" ]
SgPeer(id) == [ kind |-> "sg", ref |-> id ]
TcpRule(peer, port) == [ peer |-> peer, protocol |-> "tcp", port |-> port ]

HttpPort == 80
HttpsPort == 443
NfsPort == 2049
\* ec2.Port.tcp(8080), the port NetworkStack admits from the load balancer
MarimoPort == 8080

\* new ec2.SecurityGroup(...) followed by its addIngressRule calls
AlbSecurityGroup(env) ==
    [ securityGroupName |-> ResourceName(env, "network-alb-sg"),
      allowAllOutbound  |-> TRUE,
      ingress |-> { TcpRule(AnyIpv4, HttpPort), TcpRule(AnyIpv4, HttpsPort) } ]

\* Mutant: the compute group admitting the load balancer on the HTTP port.
FargateSecurityGroupOnHttp(env) ==
    [ securityGroupName |-> ResourceName(env, "network-fargate-sg"),
      allowAllOutbound  |-> TRUE,
      ingress |-> { TcpRule(SgPeer("alb"), HttpPort) } ]

\* Mutant: the compute group admitting any IPv4 address on the application port.
FargateSecurityGroupOpen(env) ==
    [ securityGroupName |-> ResourceName(env, "network-fargate-sg"),
      allowAllOutbound  |-> TRUE,
      ingress |-> { TcpRule(AnyIpv4, MarimoPort) } ]

FargateSecurityGroup(env) ==
    [ securityGroupName |-> ResourceName(env, "network-fargate-sg"),
      allowAllOutbound  |-> TRUE,
      ingress |-> { TcpRule(SgPeer("alb"), MarimoPort) } ]

\* Mutant: the storage group admitting the function group as well.
EfsSecurityGroupFromLambda(env) ==
    [ securityGroupName |-> ResourceName(env, "network-efs-sg"),
      allowAllOutbound  |-> FALSE,
      ingress |-> { TcpRule(SgPeer("fargate"), NfsPort),
                    TcpRule(SgPeer("lambda"), NfsPort) } ]

EfsSecurityGroup(env) ==
    [ securityGroupName |-> ResourceName(env, "network-efs-sg"),
      allowAllOutbound  |-> FALSE,
      ingress |-> { TcpRule(SgPeer("fargate"), NfsPort) } ]

LambdaSecurityGroup(env) ==
    [ securityGroupName |-> ResourceName(env, "network-lambda-sg"),
      allowAllOutbound  |-> TRUE,
      ingress |-> {} ]

SecurityGroupIds == {"alb", "fargate", "efs", "lambda"}

\* Mutant: the VPC without the endpoint for log delivery.
VpcEndpointsWithoutLogs ==
    { [ id |-> "S3Endpoint", type |-> "Gateway", service |-> "s3",
        subnets |-> "PRIVATE_WITH_EGRESS" ],
      [ id |-> "EcrApiEndpoint", type |-> "Interface", service |-> "ecr.api",
        subnets |-> "PRIVATE_WITH_EGRESS", privateDnsEnabled |-> TRUE,
        open |-> TRUE ],
      [ id |-> "EcrDockerEndpoint", type |-> "Interface", service |-> "ecr.dkr",
        subnets |-> "PRIVATE_WITH_EGRESS", privateDnsEnabled |-> TRUE,
        open |-> TRUE ],
      [ id |-> "SecretsManagerEndpoint", type |-> "Interface",
        service |-> "secretsmanager", subnets |-> "PRIVATE_WITH_EGRESS",
        privateDnsEnabled |-> TRUE, open |-> TRUE ] }

\* The gateway and interface endpoints added to the VPC. An interface
\* endpoint added without securityGroups gets a group of its own, which is
\* open (the default): it admits the VPC's address range on port 443.
VpcEndpoints ==
    { [ id |-> "S3Endpoint", type |-> "Gateway", service |-> "s3",
        subnets |-> "PRIVATE_WITH_EGRESS" ],
      [ id |-> "EcrApiEndpoint", type |-> "Interface", service |-> "ecr.api",
        subnets |-> "PRIVATE_WITH_EGRESS", privateDnsEnabled |-> TRUE,
        open |-> TRUE ],
      [ id |-> "EcrDockerEndpoint", type |-> "Interface", service |-> "ecr.dkr",
        subnets |-> "PRIVATE_WITH_EGRESS", privateDnsEnabled |-> TRUE,
        open |-> TRUE ],
      [ id |-> "SecretsManagerEndpoint", type |-> "Interface",
        service |-> "secretsmanager", subnets |-> "PRIVATE_WITH_EGRESS",
        privateDnsEnabled |-> TRUE, open |-> TRUE ],
      [ id |-> "CloudWatchLogsEndpoint", type |-> "Interface", service |-> "logs",
        subnets |-> "PRIVATE_WITH_EGRESS", privateDnsEnabled |-> TRUE,
        open |-> TRUE ] }

NetworkStack(env) ==
    [ component |-> "network",
      vpc |-> [ vpcName     |-> ResourceName(env, "network-vpc"),
                maxAzs      |-> 2,
                natGateways |-> 1,
                subnetTypes |-> {"PUBLIC", "PRIVATE_WITH_EGRESS"},
                endpoints   |-> VpcEndpoints ],
      securityGroups |-> [ alb     |-> AlbSecurityGroup(env),
                           fargate |-> FargateSecurityGroup(env),
                           efs     |-> EfsSecurityGroup(env),
                           lambda  |-> LambdaSecurityGroup(env) ] ]

----------------------------------------------------------------------------
(* DnsStack *)

\* `${CONFIG.dns.subdomainName}.${CONFIG.dns.hostedZoneName}`
DomainName == Tpl(CONFIG.dns, "subdomainName") \o "." \o Tpl(CONFIG.dns, "hostedZoneName")

\* Mutant: the certificate issued for the zone's own name.
DnsStackCertificateForZone(env) ==
    [ component  |-> "dns",
      domainName |-> DomainName,
      hostedZone |-> [ hostedZoneId |-> CONFIG.dns.hostedZoneId,
                       zoneName     |-> CONFIG.dns.hostedZoneName,
                       imported     |-> TRUE ],
      certificate |-> [ domainName      |-> CONFIG.dns.hostedZoneName,
                        certificateName |-> ResourceName(env, "dns-cert"),
                        validation      |-> "DNS" ] ]

DnsStack(env) ==
    [ component  |-> "dns",
      domainName |-> DomainName,
      hostedZone |-> [ hostedZoneId |-> CONFIG.dns.hostedZoneId,
                       zoneName     |-> CONFIG.dns.hostedZoneName,
                       imported     |-> TRUE ],
      certificate |-> [ domainName      |-> DomainName,
                        certificateName |-> ResourceName(env, "dns-cert"),
                        validation      |-> "DNS" ] ]

----------------------------------------------------------------------------
(* StorageStack *)

\* s3.BlockPublicAccess.BLOCK_ALL
BlockAll == [ blockPublicAcls       |-> TRUE,
              blockPublicPolicy     |-> TRUE,
              ignorePublicAcls      |-> TRUE,
              restrictPublicBuckets |-> TRUE ]

\* Mutant: the bucket name built without the environment.
RawBucketNameWithoutEnvironment(env) ==
    CONFIG.projectName \o "-storage-raw-" \o CONFIG.env.account

\* `${CONFIG.projectName}-${environment}-storage-raw-${CONFIG.env.account}`
RawBucketName(env) ==
    CONFIG.projectName \o "-" \o env \o "-storage-raw-" \o CONFIG.env.account

DerivedBucketName(env) ==
    CONFIG.projectName \o "-" \o env \o "-storage-derived-" \o CONFIG.env.account

\* Mutant: the raw bucket's rule given the derived bucket's expiration.
RawDataBucketExpiring(env) ==
    [ bucketName        |-> RawBucketName(env),
      encryption        |-> "S3_MANAGED",
      blockPublicAccess |-> BlockAll,
      versioned         |-> TRUE,
      removalPolicy     |-> "RETAIN",
      transitions |->
        { [ storageClass |-> "INFREQUENT_ACCESS",
            days |-> CONFIG.storage.rawDataLifecycle.transitionToIA ],
          [ storageClass |-> "GLACIER",
            days |-> CONFIG.storage.rawDataLifecycle.transitionToGlacier ],
          [ storageClass |-> "DEEP_ARCHIVE",
            days |-> CONFIG.storage.rawDataLifecycle.transitionToDeepArchive ] },
      expiration |-> {365} ]

RawDataBucket(env) ==
    [ bucketName        |-> RawBucketName(env),
      encryption        |-> "S3_MANAGED",
      blockPublicAccess |-> BlockAll,
      versioned         |-> TRUE,
      removalPolicy     |-> "RETAIN",
      transitions |->
        { [ storageClass |-> "INFREQUENT_ACCESS",
            days |-> CONFIG.storage.rawDataLifecycle.transitionToIA ],
          [ storageClass |-> "GLACIER",
            days |-> CONFIG.storage.rawDataLifecycle.transitionToGlacier ],
          [ storageClass |-> "DEEP_ARCHIVE",
            days |-> CONFIG.storage.rawDataLifecycle.transitionToDeepArchive ] },
      expiration |-> {} ]

\* Mutant: the derived bucket declared without blockPublicAccess.
DerivedDataBucketUnblocked(env) ==
    [ bucketName        |-> DerivedBucketName(env),
      encryption        |-> "S3_MANAGED",
      blockPublicAccess |-> [ blockPublicAcls       |-> FALSE,
                              blockPublicPolicy     |-> FALSE,
                              ignorePublicAcls      |-> FALSE,
                              restrictPublicBuckets |-> FALSE ],
      versioned         |-> FALSE,
      removalPolicy     |-> "DESTROY",
      transitions |->
        { [ storageClass |-> "INFREQUENT_ACCESS", days |-> 60 ],
          [ storageClass |-> "GLACIER", days |-> 180 ] },
      expiration |-> {365} ]

\* Mutant: the derived bucket aging on the raw bucket's schedule.
DerivedDataBucketOnRawSchedule(env) ==
    [ bucketName        |-> DerivedBucketName(env),
      encryption        |-> "S3_MANAGED",
      blockPublicAccess |-> BlockAll,
      versioned         |-> FALSE,
      removalPolicy     |-> "DESTROY",
      transitions |->
        { [ storageClass |-> "INFREQUENT_ACCESS",
            days |-> CONFIG.storage.rawDataLifecycle.transitionToIA ],
          [ storageClass |-> "GLACIER",
            days |-> CONFIG.storage.rawDataLifecycle.transitionToGlacier ] },
      expiration |-> {365} ]

DerivedDataBucket(env) ==
    [ bucketName        |-> DerivedBucketName(env),
      encryption        |-> "S3_MANAGED",
      blockPublicAccess |-> BlockAll,
      versioned         |-> FALSE,
      removalPolicy     |-> "DESTROY",
      transitions |->
        { [ storageClass |-> "INFREQUENT_ACCESS", days |-> 60 ],
          [ storageClass |-> "GLACIER", days |-> 180 ] },
      expiration |-> {365} ]

\* props: vpc and efsSecurityGroup are NetworkStack's handles
StorageStack(env, net) ==
    [ component         |-> "storage",
      rawDataBucket     |-> RawDataBucket(env),
      derivedDataBucket |-> DerivedDataBucket(env),
      fileSystem |-> [ fileSystemName  |-> ResourceName(env, "storage-efs"),
                       vpcName         |-> net.vpc.vpcName,
                       encrypted       |-> TRUE,
                       lifecyclePolicy |-> "AFTER_14_DAYS",
                       throughputMode  |-> "BURSTING",
                       securityGroup   |-> "efs",
                       subnets         |-> "PRIVATE_WITH_EGRESS",
                       removalPolicy   |-> "DESTROY" ],
      accessPoint |-> [ path        |-> "/scratch",
                        ownerUid    |-> "1000",
                        ownerGid    |-> "1000",
                        permissions |-> "755",
                        posixUid    |-> "1000",
                        posixGid    |-> "1000" ] ]

\* bucket.bucketArn
BucketArn(bucket) == "arn:aws:s3:::" \o bucket.bucketName

----------------------------------------------------------------------------
(* SecretsAndIamStack *)

Allow(actions, resources) ==
    [ effect |-> "Allow", actions |-> actions, resources |-> resources ]

\* The statements bucket.grantRead, grantWrite and grantReadWrite add to the
\* grantee's policy (aws-cdk-lib v2; the buckets have no KMS key).
BucketReadActions == {"s3:GetObject*", "s3:GetBucket*", "s3:List*"}
BucketPutActions ==
    {"s3:PutObject", "s3:PutObjectLegalHold", "s3:PutObjectRetention",
     "s3:PutObjectTagging", "s3:PutObjectVersionTagging", "s3:Abort*"}
BucketDeleteActions == {"s3:DeleteObject*"}

BucketAndObjects(bucket) == { BucketArn(bucket), BucketArn(bucket) \o "/*" }

GrantRead(bucket) == Allow(BucketReadActions, BucketAndObjects(bucket))
GrantWrite(bucket) ==
    Allow(BucketDeleteActions \cup BucketPutActions, BucketAndObjects(bucket))
GrantReadWrite(bucket) ==
    Allow(BucketReadActions \cup BucketDeleteActions \cup BucketPutActions,
          BucketAndObjects(bucket))

\* The AWS managed policies the roles name.
ManagedPolicyStatements(name) ==
    CASE name = "service-role/AmazonECSTaskExecutionRolePolicy" ->
           { Allow({"ecr:GetAuthorizationToken", "ecr:BatchCheckLayerAvailability",
                    "ecr:GetDownloadUrlForLayer", "ecr:BatchGetImage",
                    "logs:CreateLogStream", "logs:PutLogEvents"}, {"*"}) }
      [] name = "service-role/AWSLambdaBasicExecutionRole" ->
           { Allow({"logs:CreateLogGroup", "logs:CreateLogStream",
                    "logs:PutLogEvents"}, {"*"}) }
      [] name = "service-role/AWSLambdaVPCAccessExecutionRole" ->
           { Allow({"logs:CreateLogGroup", "logs:CreateLogStream",
                    "logs:PutLogEvents", "ec2:CreateNetworkInterface",
                    "ec2:DescribeNetworkInterfaces", "ec2:DescribeSubnets",
                    "ec2:DeleteNetworkInterface", "ec2:AssignPrivateIpAddresses",
                    "ec2:UnassignPrivateIpAddresses"}, {"*"}) }
      [] OTHER -> {}

\* `arn:aws:secretsmanager:${CONFIG.env.region}:${CONFIG.env.account}:secret:`
SecretArnPrefix ==
    "arn:aws:secretsmanager:" \o Tpl(CONFIG.env, "region") \o ":"
        \o Tpl(CONFIG.env, "account") \o ":secret:"

FargateTaskExecutionRole(env) ==
    [ name      |-> ResourceName(env, "fargate-exec-role"),
      kind      |-> "role",
      assumedBy |-> "ecs-tasks.amazonaws.com",
      managedPolicies |-> {"service-role/AmazonECSTaskExecutionRolePolicy"},
      statements |->
        { Allow({"secretsmanager:GetSecretValue"},
                { SecretArnPrefix \o Tpl(CONFIG.okta, "clientIdSecretName") \o "*",
                  SecretArnPrefix \o Tpl(CONFIG.okta, "clientSecretSecretName") \o "*" }) } ]

\* Mutant: the task role given read-write on the raw bucket.
FargateTaskRoleReadWriteRaw(env, raw, derived) ==
    [ name      |-> ResourceName(env, "fargate-task-role"),
      kind      |-> "role",
      assumedBy |-> "ecs-tasks.amazonaws.com",
      managedPolicies |-> {},
      statements |-> { GrantReadWrite(raw), GrantReadWrite(derived) } ]

FargateTaskRole(env, raw, derived) ==
    [ name      |-> ResourceName(env, "fargate-task-role"),
      kind      |-> "role",
      assumedBy |-> "ecs-tasks.amazonaws.com",
      managedPolicies |-> {},
      statements |-> { GrantRead(raw), GrantReadWrite(derived) } ]

\* Mutants: the function execution role's write grant naming every bucket,
\* and its secret statement naming every secret.
LambdaExecutionRoleAnyBucket(env, raw) ==
    [ name      |-> ResourceName(env, "lambda-exec-role"),
      kind      |-> "role",
      assumedBy |-> "lambda.amazonaws.com",
      managedPolicies |-> {"service-role/AWSLambdaBasicExecutionRole",
                           "service-role/AWSLambdaVPCAccessExecutionRole"},
      statements |->
        { Allow({"secretsmanager:GetSecretValue"},
                { SecretArnPrefix \o CONFIG.projectName \o "/api/*" }),
          Allow(BucketDeleteActions \cup BucketPutActions, {"arn:aws:s3:::*"}) } ]

LambdaExecutionRoleAnySecret(env, raw) ==
    [ name      |-> ResourceName(env, "lambda-exec-role"),
      kind      |-> "role",
      assumedBy |-> "lambda.amazonaws.com",
      managedPolicies |-> {"service-role/AWSLambdaBasicExecutionRole",
                           "service-role/AWSLambdaVPCAccessExecutionRole"},
      statements |->
        { Allow({"secretsmanager:GetSecretValue"}, { SecretArnPrefix \o "*" }),
          GrantWrite(raw) } ]

LambdaExecutionRole(env, raw) ==
    [ name      |-> ResourceName(env, "lambda-exec-role"),
      kind      |-> "role",
      assumedBy |-> "lambda.amazonaws.com",
      managedPolicies |-> {"service-role/AWSLambdaBasicExecutionRole",
                           "service-role/AWSLambdaVPCAccessExecutionRole"},
      statements |->
        { Allow({"secretsmanager:GetSecretValue"},
                { SecretArnPrefix \o CONFIG.projectName \o "/api/*" }),
          GrantWrite(raw) } ]

DataTransformationRole(env, raw, derived) ==
    [ name      |-> ResourceName(env, "transform-role"),
      kind      |-> "role",
      assumedBy |-> "lambda.amazonaws.com",
      managedPolicies |-> {"service-role/AWSLambdaBasicExecutionRole",
                           "service-role/AWSLambdaVPCAccessExecutionRole"},
      statements |-> { GrantRead(raw), GrantReadWrite(derived) } ]

\* Mutant: the user given the bucket's write grant, which includes delete.
OnPremiseUserGrantWrite(env, raw) ==
    [ name      |-> ResourceName(env, "onpremise-user"),
      kind      |-> "user",
      assumedBy |-> "access-key",
      managedPolicies |-> {},
      statements |-> { GrantWrite(raw) } ]

OnPremiseUser(env, raw) ==
    [ name      |-> ResourceName(env, "onpremise-user"),
      kind      |-> "user",
      assumedBy |-> "access-key",
      managedPolicies |-> {},
      statements |->
        { Allow({"s3:PutObject", "s3:PutObjectAcl"}, { BucketArn(raw) \o "/*" }) } ]

\* `${CONFIG.projectName}/${environment}/onpremise/credentials`
OnPremiseCredentialsName(env) ==
    CONFIG.projectName \o "/" \o env \o "/onpremise/credentials"

PrincipalIds ==
    {"fargateTaskExecutionRole", "fargateTaskRole", "lambdaExecutionRole",
     "dataTransformationRole", "onPremiseUser"}

\* props: rawDataBucket and derivedDataBucket are StorageStack's handles
SecretsAndIamStack(env, raw, derived) ==
    [ component  |-> "iam",
      principals |->
        [ fargateTaskExecutionRole |-> FargateTaskExecutionRole(env),
          fargateTaskRole          |-> FargateTaskRole(env, raw, derived),
          lambdaExecutionRole      |-> LambdaExecutionRole(env, raw),
          dataTransformationRole   |-> DataTransformationRole(env, raw, derived),
          onPremiseUser            |-> OnPremiseUser(env, raw) ],
      onPremiseCredentials |->
        [ secretName    |-> OnPremiseCredentialsName(env),
          userName      |-> ResourceName(env, "onpremise-user"),
          removalPolicy |-> "DESTROY" ] ]

\* The statements attached to a principal: its inline statements and those
\* of its managed policies.
StatementsOf(principal) ==
    principal.statements
        \cup UNION { ManagedPolicyStatements(m) : m \in principal.managedPolicies }

\* IAM's decision for a same-account call: allowed when an Allow statement of
\* the caller matches the action and the resource. No stack declares a Deny
\* statement, a bucket policy or a secret resource policy.
Allowed(principal, action, resource) ==
    \E st \in StatementsOf(principal) :
        /\ st.effect = "Allow"
        /\ \E a \in st.actions : Glob(a, action)
        /\ \E r \in st.resources : Glob(r, resource)

----------------------------------------------------------------------------
(* ComputeStack *)

TargetGroupPort == 8080
ContainerPort == 8080

\* ListenerAction.authenticateOidc({ ..., next: ListenerAction.forward([targetGroup]) })
AuthenticateOidc ==
    [ type |-> "authenticate-oidc",
      issuer                |-> Tpl(CONFIG.okta, "issuer"),
      authorizationEndpoint |-> Tpl(CONFIG.okta, "issuer") \o "/v1/authorize",
      tokenEndpoint         |-> Tpl(CONFIG.okta, "issuer") \o "/v1/token",
      userInfoEndpoint      |-> Tpl(CONFIG.okta, "issuer") \o "/v1/userinfo",
      clientIdSecret        |-> Tpl(CONFIG.okta, "clientIdSecretArn"),
      clientSecretSecret    |-> Tpl(CONFIG.okta, "clientSecretSecretArn") ]

Forward(targetGroupName) == [ type |-> "forward", targetGroup |-> targetGroupName ]

\* ListenerAction.redirect({ protocol, port, permanent })
Redirect(protocol, port, permanent) ==
    [ type |-> "redirect", protocol |-> protocol, port |-> port,
      statusCode |-> IF permanent THEN "HTTP_301" ELSE "HTTP_302" ]

\* Mutants: the HTTPS listener forwarding without authentication, and the HTTP
\* listener forwarding instead of redirecting.
HttpsForwardOnly(targetGroupName) == << Forward(targetGroupName) >>

HttpForwardToTarget == << Forward(CONFIG.projectName \o "-tg") >>

\* The default action of a listener, as the chain of actions a request runs
\* through in order.
HttpsDefaultAction(targetGroupName) == << AuthenticateOidc, Forward(targetGroupName) >>

HttpDefaultAction == << Redirect("HTTPS", "443", TRUE) >>

HttpsListener(certificate, targetGroupName) ==
    [ port |-> HttpsPort, protocol |-> "HTTPS", certificates |-> {certificate},
      defaultAction |-> HttpsDefaultAction(targetGroupName) ]

HttpListener ==
    [ port |-> HttpPort, protocol |-> "HTTP", certificates |-> {},
      defaultAction |-> HttpDefaultAction ]

\* The props a caller hands to ComputeStack: each is the handle of the same
\* name and type that NetworkStack, DnsStack, StorageStack and
\* SecretsAndIamStack export. Security groups and roles are handed over by
\* identity.
ComputeStackProps(env, net, dnsS, stor, iamS) ==
    [ environment          |-> env,
      vpc                  |-> net.vpc,
      albSecurityGroup     |-> "alb",
      fargateSecurityGroup |-> "fargate",
      hostedZone           |-> dnsS.hostedZone,
      certificate          |-> dnsS.certificate,
      domainName           |-> dnsS.domainName,
      fileSystem           |-> stor.fileSystem,
      accessPoint          |-> stor.accessPoint,
      taskExecutionRole    |-> "fargateTaskExecutionRole",
      taskRole             |-> "fargateTaskRole" ]

ComputeStack(props) ==
    [ component |-> "compute",
      cluster |-> [ clusterName |-> ResourceName(props.environment, "compute-cluster"),
                    vpcName     |-> props.vpc.vpcName ],
      loadBalancer |-> [ loadBalancerName |-> ResourceName(props.environment, "alb"),
                         internetFacing   |-> TRUE,
                         securityGroup    |-> props.albSecurityGroup,
                         subnets          |-> "PUBLIC" ],
      targetGroup |-> [ targetGroupName |-> ResourceName(props.environment, "tg"),
                        port            |-> TargetGroupPort,
                        protocol        |-> "HTTP",
                        targetType      |-> "IP",
                        healthCheckPath |-> "/" ],
      listeners |-> { HttpsListener(props.certificate,
                                    ResourceName(props.environment, "tg")),
                      HttpListener },
      logGroup |-> [ logGroupName  |-> "/ecs/" \o ResourceName(props.environment, "marimo"),
                     retention     |-> "ONE_WEEK",
                     removalPolicy |-> "DESTROY" ],
      taskDefinition |->
        [ family        |-> ResourceName(props.environment, "marimo"),
          executionRole |-> props.taskExecutionRole,
          taskRole      |-> props.taskRole,
          volume |-> [ name              |-> "scratch",
                       fileSystemName    |-> props.fileSystem.fileSystemName,
                       transitEncryption |-> "ENABLED",
                       accessPointPath   |-> props.accessPoint.path,
                       iam               |-> "ENABLED" ],
          container |-> [ containerName |-> "marimo",
                          containerPort |-> ContainerPort,
                          environment   |-> props.environment,
                          mountPath     |-> "/app/scratch",
                          readOnly      |-> FALSE ] ],
      service |-> [ serviceName    |-> ResourceName(props.environment, "marimo-service"),
                    desiredCount   |-> 1,
                    assignPublicIp |-> FALSE,
                    securityGroups |-> { props.fargateSecurityGroup },
                    subnets        |-> "PRIVATE_WITH_EGRESS",
                    attachedTo     |-> ResourceName(props.environment, "tg") ],
      aliasRecord    |-> [ recordName |-> props.domainName,
                           zoneName   |-> props.hostedZone.zoneName,
                           target     |-> ResourceName(props.environment, "alb") ],
      applicationUrl |-> "https://" \o props.domainName ]

\* The security group rules the constructs of ComputeStack add through the
\* groups' connections: each listener is open (the default) and admits any
\* IPv4 address on its port into the load balancer's group, and attaching the
\* service to the target group admits the load balancer's group on the
\* container's port into the service's groups. A rule a group already has is
\* not added again.
ConnectionsOf(comp, groups) ==
    [ id \in DOMAIN groups |->
        [ groups[id] EXCEPT !.ingress =
            @ \cup (IF id = comp.loadBalancer.securityGroup
                    THEN { TcpRule(AnyIpv4, l.port) : l \in comp.listeners }
                    ELSE {})
              \cup (IF id \in comp.service.securityGroups
                    THEN { TcpRule(SgPeer(comp.loadBalancer.securityGroup),
                                   comp.taskDefinition.container.containerPort) }
                    ELSE {}) ] ]

\* logs.LogGroup.fromLogGroupName(...).logGroupArn
LogGroupArn(logGroupName) ==
    "arn:aws:logs:" \o Tpl(CONFIG.env, "region") \o ":" \o Tpl(CONFIG.env, "account")
        \o ":log-group:" \o logGroupName \o ":*"

\* ecs.LogDrivers.awsLogs({ logGroup }) given to addContainer grants the task
\* definition's execution role write on the log group: the statement is added
\* to the role's own policy, in the stack that declared the role.
GrantsOf(comp, iamS) ==
    [ iamS EXCEPT !.principals[comp.taskDefinition.executionRole].statements =
        @ \cup { Allow({"logs:CreateLogStream", "logs:PutLogEvents"},
                       { LogGroupArn(comp.logGroup.logGroupName) }) } ]

----------------------------------------------------------------------------
(* The resources each stack declares *)

\* The ids under which the stacks are added to the app:
\* `${CONFIG.projectName}-${environment}-<id>`.
StackIds == {"network", "dns", "storage", "secrets-iam", "compute"}

\* One declared resource: the construct's id, its CloudFormation type, the
\* name the source gives it ("" when it gives none) and its removal policy.
Resource(id, type, name, removalPolicy) ==
    [ id |-> id, type |-> type, name |-> name, removalPolicy |-> removalPolicy ]

\* The constructs of each stack's constructor. A construct declared without
\* removalPolicy is deleted with its stack.
NetworkResources(net) ==
    { Resource("Vpc", "AWS::EC2::VPC", net.vpc.vpcName, "DESTROY") }
      \cup { Resource(e.id, "AWS::EC2::VPCEndpoint", "", "DESTROY") :
               e \in net.vpc.endpoints }
      \cup { Resource("AlbSecurityGroup", "AWS::EC2::SecurityGroup",
                      net.securityGroups.alb.securityGroupName, "DESTROY"),
             Resource("FargateSecurityGroup", "AWS::EC2::SecurityGroup",
                      net.securityGroups.fargate.securityGroupName, "DESTROY"),
             Resource("EfsSecurityGroup", "AWS::EC2::SecurityGroup",
                      net.securityGroups.efs.securityGroupName, "DESTROY"),
             Resource("LambdaSecurityGroup", "AWS::EC2::SecurityGroup",
                      net.securityGroups.lambda.securityGroupName, "DESTROY") }

\* The hosted zone is imported: it is no resource of the stack.
DnsResources(dnsS) ==
    { Resource("Certificate", "AWS::CertificateManager::Certificate",
               dnsS.certificate.certificateName, "DESTROY") }

StorageResources(stor) ==
    { Resource("RawDataBucket", "AWS::S3::Bucket",
               stor.rawDataBucket.bucketName, stor.rawDataBucket.removalPolicy),
      Resource("DerivedDataBucket", "AWS::S3::Bucket",
               stor.derivedDataBucket.bucketName,
               stor.derivedDataBucket.removalPolicy),
      Resource("FileSystem", "AWS::EFS::FileSystem",
               stor.fileSystem.fileSystemName, stor.fileSystem.removalPolicy),
      Resource("AccessPoint", "AWS::EFS::AccessPoint", "", "DESTROY") }

IamResources(iamS) ==
    { Resource("FargateTaskExecutionRole", "AWS::IAM::Role",
               iamS.principals.fargateTaskExecutionRole.name, "DESTROY"),
      Resource("FargateTaskRole", "AWS::IAM::Role",
               iamS.principals.fargateTaskRole.name, "DESTROY"),
      Resource("LambdaExecutionRole", "AWS::IAM::Role",
               iamS.principals.lambdaExecutionRole.name, "DESTROY"),
      Resource("DataTransformationRole", "AWS::IAM::Role",
               iamS.principals.dataTransformationRole.name, "DESTROY"),
      Resource("OnPremiseUser", "AWS::IAM::User",
               iamS.principals.onPremiseUser.name, "DESTROY"),
      Resource("OnPremiseAccessKey", "AWS::IAM::AccessKey", "", "DESTROY"),
      Resource("OnPremiseCredentials", "AWS::SecretsManager::Secret",
               iamS.onPremiseCredentials.secretName,
               iamS.onPremiseCredentials.removalPolicy) }

ComputeResources(comp) ==
    { Resource("Cluster", "AWS::ECS::Cluster", comp.cluster.clusterName, "DESTROY"),
      Resource("LoadBalancer", "AWS::ElasticLoadBalancingV2::LoadBalancer",
               comp.loadBalancer.loadBalancerName, "DESTROY"),
      Resource("TargetGroup", "AWS::ElasticLoadBalancingV2::TargetGroup",
               comp.targetGroup.targetGroupName, "DESTROY"),
      Resource("HttpsListener", "AWS::ElasticLoadBalancingV2::Listener", "", "DESTROY"),
      Resource("HttpListener", "AWS::ElasticLoadBalancingV2::Listener", "", "DESTROY"),
      Resource("LogGroup", "AWS::Logs::LogGroup",
               comp.logGroup.logGroupName, comp.logGroup.removalPolicy),
      Resource("TaskDefinition", "AWS::ECS::TaskDefinition",
               comp.taskDefinition.family, "DESTROY"),
      Resource("Service", "AWS::ECS::Service", comp.service.serviceName, "DESTROY"),
      Resource("AliasRecord", "AWS::Route53::RecordSet",
               comp.aliasRecord.recordName, "DESTROY") }

\* The resources of a constructed stack, by the Component tag its constructor
\* sets.
ResourcesOf(stack) ==
    CASE stack.component = "network" -> NetworkResources(stack)
      [] stack.component = "dns"     -> DnsResources(stack)
      [] stack.component = "storage" -> StorageResources(stack)
      [] stack.component = "iam"     -> IamResources(stack)
      [] stack.component = "compute" -> ComputeResources(stack)
      [] OTHER -> {}

\* The resource types whose CloudFormation schema has a tags property; the
\* tag aspect skips every other resource.
TaggableTypes ==
    { "AWS::EC2::VPC", "AWS::EC2::VPCEndpoint", "AWS::EC2::SecurityGroup",
      "AWS::CertificateManager::Certificate", "AWS::S3::Bucket",
      "AWS::EFS::FileSystem", "AWS::EFS::AccessPoint", "AWS::IAM::Role",
      "AWS::IAM::User", "AWS::SecretsManager::Secret", "AWS::ECS::Cluster",
      "AWS::ElasticLoadBalancingV2::LoadBalancer",
      "AWS::ElasticLoadBalancingV2::TargetGroup", "AWS::Logs::LogGroup",
      "AWS::ECS::TaskDefinition", "AWS::ECS::Service" }

\* A tag aspect that applies the app's tags only.
TagsOfAppOnly(tagsOfApp, stack, res) ==
    IF res.type \in TaggableTypes THEN tagsOfApp ELSE {}

\* cdk.Tags.of(scope).add(key, value): the tags a resource is synthesized
\* with are those added on the app and the Component tag added on its stack.
TagsOf(tagsOfApp, stack, res) ==
    IF res.type \in TaggableTypes
    THEN tagsOfApp \cup { <<"Component", stack.component>> }
    ELSE {}

----------------------------------------------------------------------------
(* The load balancer deciding a request *)

NoReq == [ result |-> "none" ]

ListenerOn(comp, port) == CHOOSE l \in comp.listeners : l.port = port

\* One action of the listener's chain applied to request r.
\*   authenticate-oidc: a request with a valid session goes on to the next
\*     action; any other is answered with a redirect to the authorization
\*     endpoint.
\*   forward: the request is sent to the target group.
\*   redirect: the request is answered with the redirect.
ApplyAction(action, r) ==
    CASE action.type = "authenticate-oidc" ->
           IF r.session
           THEN [ r EXCEPT !.idx = @ + 1, !.authenticated = TRUE ]
           ELSE [ r EXCEPT !.result = "authorize" ]
      [] action.type = "forward" -> [ r EXCEPT !.result = "forwarded" ]
      [] action.type = "redirect" ->
           [ r EXCEPT !.result = action.statusCode,
                      !.location = action.protocol \o ":" \o action.port ]

----------------------------------------------------------------------------
(* Security groups deciding a flow *)

Internet == "internet"
Nodes == SecurityGroupIds \cup {Internet}

\* 0.0.0.0/0 matches every IPv4 source, a member of another group included.
PeerMatches(peer, src) ==
    \/ peer.kind = "cidr" /\ peer.ref = "0.0.0.0/0"
    \/ peer.kind = "sg" /\ peer.ref = src

IngressAllows(group, src, port) ==
    \E rule \in group.ingress :
        PeerMatches(rule.peer, src) /\ rule.protocol = "tcp" /\ rule.port = port

\* allowAllOutbound: true is one egress rule to 0.0.0.0/0 for all traffic;
\* false leaves the group with no rule that matches any traffic.
EgressAllows(group) == group.allowAllOutbound

\* A TCP connection from src to dst on port passes the groups of both ends;
\* the internet is behind no group.
FlowAllowed(groups, src, dst, port) ==
    /\ src # dst
    /\ src = Internet \/ EgressAllows(groups[src])
    /\ dst = Internet \/ IngressAllows(groups[dst], src, port)

----------------------------------------------------------------------------
(* The calls and flows that are tried against the declared resources *)

ObjectKey == "data.csv"
ObjectArn(bucket) == BucketArn(bucket) \o "/" \o ObjectKey

S3ObjectActions ==
    {"s3:GetObject", "s3:PutObject", "s3:PutObjectAcl", "s3:DeleteObject",
     "s3:AbortMultipartUpload"}
S3BucketActions == {"s3:ListBucket", "s3:GetBucketLocation", "s3:DeleteBucket"}
SecretActions == {"secretsmanager:GetSecretValue", "secretsmanager:PutSecretValue"}

ApiSecretArn == SecretArnPrefix \o CONFIG.projectName \o "/api/my-api-a1b2c3"
OnPremiseSecretArn(env) == SecretArnPrefix \o OnPremiseCredentialsName(env) \o "-d4e5f6"
OktaSecretArns == { CONFIG.okta.clientIdSecretArn, CONFIG.okta.clientSecretSecretArn }
SecretArns(env) == OktaSecretArns \cup { ApiSecretArn, OnPremiseSecretArn(env) }

\* <<action, resource>>: an object action names an object, a bucket action a
\* bucket, a secret action a secret.
Calls(stor, env) ==
    (S3ObjectActions \X { ObjectArn(stor.rawDataBucket), ObjectArn(stor.derivedDataBucket) })
        \cup (S3BucketActions \X { BucketArn(stor.rawDataBucket),
                                   BucketArn(stor.derivedDataBucket) })
        \cup (SecretActions \X SecretArns(env))

\* The calls tried one at a time; the decision for every call of Calls is
\* computed from the same statements.
TriedCalls(stor, env) ==
    { <<"s3:GetObject", ObjectArn(stor.rawDataBucket)>>,
      <<"s3:PutObject", ObjectArn(stor.rawDataBucket)>>,
      <<"s3:PutObject", ObjectArn(stor.derivedDataBucket)>>,
      <<"s3:ListBucket", BucketArn(stor.rawDataBucket)>>,
      <<"secretsmanager:GetSecretValue", ApiSecretArn>>,
      <<"secretsmanager:GetSecretValue", CONFIG.okta.clientIdSecretArn>> }

\* The ports a rule of some group names, and one (ssh) that none names.
Ports == {HttpPort, HttpsPort, MarimoPort, NfsPort, 22}
TriedPorts == {HttpsPort, MarimoPort, NfsPort}

NoObject == [ bucket |-> "" ]

NoDecision ==
    [ kind |-> "none", who |-> "", action |-> "", resource |-> "", port |-> 0,
      decision |-> "" ]

----------------------------------------------------------------------------
(* bin/app.ts *)

Init ==
    /\ context \in Contexts
    /\ pc = "start"
    /\ environment = ""
    /\ appTags = {}
    /\ network = NoStack
    /\ dns = NoStack
    /\ storage = NoStack
    /\ iam = NoStack
    /\ compute = NoStack
    /\ deps = {}
    /\ assembly = {}
    /\ cookie = FALSE
    /\ req = NoReq
    /\ observed = NoDecision
    /\ stacks = [ id \in StackIds |-> "NONE" ]
    /\ cloud = {}
    /\ object = NoObject

\* new cdk.App(), const environment, cdk.Tags.of(app).add(...)
AppStart ==
    /\ pc = "start"
    /\ environment' = EnvironmentOf(context)
    /\ appTags' = { <<"Project", CONFIG.tags.Project>>,
                    <<"Environment", EnvironmentOf(context)>>,
                    <<"ManagedBy", CONFIG.tags.ManagedBy>>,
                    <<"Owner", CONFIG.tags.Owner>>,
                    <<"IaC", CONFIG.tags.IaC>>,
                    <<"Repository", CONFIG.tags.Repository>> }
    /\ pc' = "network"
    /\ UNCHANGED <<context, network, dns, storage, iam, compute, deps, assembly,
                   cookie, req, observed,
                   stacks, cloud, object>>

NewNetworkStack ==
    /\ pc = "network"
    /\ network' = NetworkStack(environment)
    /\ pc' = "dns"
    /\ UNCHANGED <<context, environment, appTags, dns, storage, iam, compute, deps,
                   assembly, cookie, req, observed,
                   stacks, cloud, object>>

NewDnsStack ==
    /\ pc = "dns"
    /\ dns' = DnsStack(environment)
    /\ pc' = "storage"
    /\ UNCHANGED <<context, environment, appTags, network, storage, iam, compute,
                   deps, assembly, cookie, req, observed,
                   stacks, cloud, object>>

\* new StorageStack(...); storageStack.addDependency(networkStack)
NewStorageStack ==
    /\ pc = "storage"
    /\ storage' = StorageStack(environment, network)
    /\ deps' = deps \cup { <<"storage", "network">> }
    /\ pc' = "secretsIam"
    /\ UNCHANGED <<context, environment, appTags, network, dns, iam, compute,
                   assembly, cookie, req, observed,
                   stacks, cloud, object>>

\* new SecretsAndIamStack(...); secretsIamStack.addDependency(storageStack)
NewSecretsAndIamStack ==
    /\ pc = "secretsIam"
    /\ iam' = SecretsAndIamStack(environment, storage.rawDataBucket,
                                 storage.derivedDataBucket)
    /\ deps' = deps \cup { <<"secrets-iam", "storage">> }
    /\ pc' = "synth"
    /\ UNCHANGED <<context, environment, appTags, network, dns, storage, compute,
                   assembly, cookie, req, observed,
                   stacks, cloud, object>>

\* app.synth(): the stacks app.ts instantiated
AppSynth ==
    /\ pc = "synth"
    /\ assembly' = { ResourceName(environment, "network"),
                     ResourceName(environment, "dns"),
                     ResourceName(environment, "storage"),
                     ResourceName(environment, "secrets-iam") }
    /\ pc' = "done"
    /\ UNCHANGED <<context, environment, appTags, network, dns, storage, iam,
                   compute, deps, cookie, req, observed,
                   stacks, cloud, object>>

\* new ComputeStack(scope, id, props). bin/app.ts does not instantiate it (its
\* import is commented out); a caller can as soon as the four stacks whose
\* handles the props take exist. Its constructs add their rules to the
\* security groups, and their grants to the roles, they are given.
NewComputeStack ==
    /\ compute = NoStack
    /\ network # NoStack /\ dns # NoStack /\ storage # NoStack /\ iam # NoStack
    /\ compute' = ComputeStack(ComputeStackProps(environment, network, dns, storage, iam))
    /\ network' = [ network EXCEPT
                      !.securityGroups = ConnectionsOf(compute', @) ]
    /\ iam' = GrantsOf(compute', iam)
    /\ UNCHANGED <<context, pc, environment, appTags, dns, storage, deps,
                   assembly, cookie, req, observed,
                   stacks, cloud, object>>

----------------------------------------------------------------------------
(* cdk deploy, cdk destroy and the buckets' objects *)

\* The stack constructed under an id, or NoStack.
StackOf(id) ==
    CASE id = "network"     -> network
      [] id = "dns"         -> dns
      [] id = "storage"     -> storage
      [] id = "secrets-iam" -> iam
      [] id = "compute"     -> compute

\* <<consumer, producer>>: the consumer's props take handles of the producer.
HandleReferences ==
    { <<"storage", "network">>, <<"secrets-iam", "storage">>,
      <<"compute", "network">>, <<"compute", "dns">>, <<"compute", "storage">>,
      <<"compute", "secrets-iam">> }

\* The name under which a resource exists in the account: the name the source
\* gives it, or one CloudFormation generates from the stack and the
\* construct's id.
PhysicalName(env, id, res) ==
    IF res.name # "" THEN res.name ELSE ResourceName(env, id) \o "/" \o res.id

PhysicalNames(env, id) ==
    { PhysicalName(env, id, res) : res \in ResourcesOf(StackOf(id)) }

Live == {"CREATE_COMPLETE", "DELETE_FAILED"}

\* cdk deploy <stack>: the stack is in the cloud assembly and every stack it
\* declared a dependency on is deployed. CloudFormation creates the stack's
\* resources; creating a resource whose name already exists in the account
\* fails, and the stack rolls back to none of its resources.
Deploy(id) ==
    /\ pc = "done"
    /\ ResourceName(environment, id) \in assembly
    /\ stacks[id] \in {"NONE", "ROLLBACK_COMPLETE", "DELETE_COMPLETE"}
    /\ \A d \in deps : d[1] = id => stacks[d[2]] = "CREATE_COMPLETE"
    /\ IF PhysicalNames(environment, id) \cap cloud = {}
       THEN /\ stacks' = [ stacks EXCEPT ![id] = "CREATE_COMPLETE" ]
            /\ cloud' = cloud \cup PhysicalNames(environment, id)
       ELSE /\ stacks' = [ stacks EXCEPT ![id] = "ROLLBACK_COMPLETE" ]
            /\ cloud' = cloud
    /\ UNCHANGED <<context, pc, environment, appTags, network, dns, storage, iam,
                   compute, deps, assembly, cookie, req, observed, object>>

\* The resources of a stack that its deletion leaves in the account: those
\* with removalPolicy RETAIN, and a bucket that holds an object (no bucket is
\* declared with autoDeleteObjects, and only an empty bucket can be deleted).
Survivors(env, id) ==
    { PhysicalName(env, id, res) :
        res \in { r \in ResourcesOf(StackOf(id)) :
                    \/ r.removalPolicy = "RETAIN"
                    \/ r.type = "AWS::S3::Bucket" /\ object.bucket = r.name } }

Retained(env, id) ==
    { PhysicalName(env, id, res) :
        res \in { r \in ResourcesOf(StackOf(id)) : r.removalPolicy = "RETAIN" } }

\* cdk destroy <stack>: the stacks that declared a dependency on it are
\* destroyed first. The deletion fails when a resource to delete cannot be.
Destroy(id) ==
    /\ stacks[id] \in Live \cup {"ROLLBACK_COMPLETE"}
    /\ \A d \in deps : d[2] = id => stacks[d[1]] \notin Live
    /\ IF stacks[id] = "ROLLBACK_COMPLETE"
       THEN /\ stacks' = [ stacks EXCEPT ![id] = "NONE" ]
            /\ cloud' = cloud
       ELSE /\ cloud' = (cloud \ PhysicalNames(environment, id))
                            \cup (Survivors(environment, id) \cap cloud)
            /\ stacks' = [ stacks EXCEPT ![id] =
                             IF Survivors(environment, id) \cap cloud
                                   \subseteq Retained(environment, id)
                             THEN "DELETE_COMPLETE" ELSE "DELETE_FAILED" ]
    /\ UNCHANGED <<context, pc, environment, appTags, network, dns, storage, iam,
                   compute, deps, assembly, cookie, req, observed, object>>

Buckets == {"rawDataBucket", "derivedDataBucket"}

\* A principal of the deployed SecretsAndIamStack puts an object into a bucket
\* that exists; IAM decides the call.
PutObject(who, b) ==
    /\ stacks["secrets-iam"] = "CREATE_COMPLETE"
    /\ storage[b].bucketName \in cloud
    /\ object = NoObject
    /\ Allowed(iam.principals[who], "s3:PutObject", ObjectArn(storage[b]))
    /\ object' = [ bucket |-> storage[b].bucketName, handle |-> b, age |-> 0,
                   storageClass |-> "STANDARD" ]
    /\ UNCHANGED <<context, pc, environment, appTags, network, dns, storage, iam,
                   compute, deps, assembly, cookie, req, observed, stacks, cloud>>

\* The oldest object age the model follows, in days.
MaxAge == 400

\* The storage classes, from the warmest to the coldest. A lifecycle
\* transition only ever moves an object to a colder class.
Coldness(storageClass) ==
    CASE storageClass = "STANDARD"          -> 0
      [] storageClass = "INFREQUENT_ACCESS" -> 1
      [] storageClass = "GLACIER"           -> 2
      [] storageClass = "DEEP_ARCHIVE"      -> 3

\* The bucket's lifecycle rule applied to an object of the given age: each
\* transition whose transitionAfter has passed is due, and the object is in
\* the coldest class that is due; it expires once the rule's expiration has
\* passed.
StorageClassAt(bucket, age) ==
    LET due == { t \in bucket.transitions : t.days <= age }
    IN IF due = {} THEN "STANDARD"
       ELSE (CHOOSE t \in due :
                \A u \in due : Coldness(u.storageClass) <= Coldness(t.storageClass)
            ).storageClass

Expired(bucket, age) == \E days \in bucket.expiration : days <= age

\* A day passes: the object is a day older and its bucket's lifecycle rule is
\* applied to it.
DayPasses ==
    /\ object # NoObject
    /\ object.age < MaxAge
    /\ LET bucket == storage[object.handle]
           age    == object.age + 1
       IN object' = IF Expired(bucket, age) THEN NoObject
                    ELSE [ object EXCEPT !.age = age,
                                         !.storageClass = StorageClassAt(bucket, age) ]
    /\ UNCHANGED <<context, pc, environment, appTags, network, dns, storage, iam,
                   compute, deps, assembly, cookie, req, observed, stacks, cloud>>

\* The app synthesized, its stacks deployed and destroyed, objects uploaded
\* and aged.
OpsNext ==
    \/ AppStart
    \/ NewNetworkStack
    \/ NewDnsStack
    \/ NewStorageStack
    \/ NewSecretsAndIamStack
    \/ AppSynth
    \/ \E id \in StackIds : Deploy(id)
    \/ \E id \in StackIds : Destroy(id)
    \/ \E who \in PrincipalIds, b \in Buckets : PutObject(who, b)
    \/ DayPasses

OpsSpec == Init /\ [][OpsNext]_vars

----------------------------------------------------------------------------
(* Requests, calls and flows *)

\* A browser sends a request to a listener's port. The session cookie is
\* Secure: it travels on HTTPS only.
SendRequest(port) ==
    /\ compute # NoStack
    /\ req = NoReq
    /\ req' = [ result |-> "pending", port |-> port,
                session |-> (cookie /\ port = HttpsPort), idx |-> 1,
                authenticated |-> FALSE, location |-> "" ]
    /\ UNCHANGED <<context, pc, environment, appTags, network, dns, storage, iam,
                   compute, deps, assembly, cookie, observed,
                   stacks, cloud, object>>

\* The listener applies the next action of its default action to the request.
ListenerStep ==
    /\ compute # NoStack
    /\ req.result = "pending"
    /\ LET chain == ListenerOn(compute, req.port).defaultAction
           next  == ApplyAction(chain[req.idx], req)
       IN req' = next
    /\ UNCHANGED <<context, pc, environment, appTags, network, dns, storage, iam,
                   compute, deps, assembly, cookie, observed,
                   stacks, cloud, object>>

\* The user, sent to the authorization endpoint, signs in or fails to; the
\* load balancer sets the session cookie after a completed handshake.
OidcLogin(success) ==
    /\ req # NoReq
    /\ req.result = "authorize"
    /\ cookie' = success
    /\ req' = NoReq
    /\ UNCHANGED <<context, pc, environment, appTags, network, dns, storage, iam,
                   compute, deps, assembly, observed,
                   stacks, cloud, object>>

\* The response (the target's, or the redirect) reaches the browser.
Respond ==
    /\ req # NoReq
    /\ req.result \in {"forwarded", "HTTP_301", "HTTP_302"}
    /\ req' = NoReq
    /\ UNCHANGED <<context, pc, environment, appTags, network, dns, storage, iam,
                   compute, deps, assembly, cookie, observed,
                   stacks, cloud, object>>

SessionExpires ==
    /\ cookie
    /\ cookie' = FALSE
    /\ UNCHANGED <<context, pc, environment, appTags, network, dns, storage, iam,
                   compute, deps, assembly, req, observed,
                   stacks, cloud, object>>

\* A principal of SecretsAndIamStack calls S3 or Secrets Manager.
IamCall(who, call) ==
    /\ iam # NoStack
    /\ observed' = [ kind |-> "iam", who |-> who, action |-> call[1],
                     resource |-> call[2], port |-> 0,
                     decision |-> IF Allowed(iam.principals[who], call[1], call[2])
                                  THEN "Allow" ELSE "AccessDenied" ]
    /\ UNCHANGED <<context, pc, environment, appTags, network, dns, storage, iam,
                   compute, deps, assembly, cookie, req,
                   stacks, cloud, object>>

\* A TCP connection is tried from src to dst.
Flow(src, dst, port) ==
    /\ network # NoStack
    /\ src # dst
    /\ observed' = [ kind |-> "flow", who |-> src, action |-> "tcp",
                     resource |-> dst, port |-> port,
                     decision |-> IF FlowAllowed(network.securityGroups, src, dst, port)
                                  THEN "accept" ELSE "drop" ]
    /\ UNCHANGED <<context, pc, environment, appTags, network, dns, storage, iam,
                   compute, deps, assembly, cookie, req,
                   stacks, cloud, object>>

Next ==
    \/ AppStart
    \/ NewNetworkStack
    \/ NewDnsStack
    \/ NewStorageStack
    \/ NewSecretsAndIamStack
    \/ AppSynth
    \/ NewComputeStack
    \/ \E port \in {HttpPort, HttpsPort} : SendRequest(port)
    \/ ListenerStep
    \/ \E success \in BOOLEAN : OidcLogin(success)
    \/ Respond
    \/ SessionExpires
    \/ /\ iam # NoStack
       /\ \E who \in PrincipalIds : \E call \in TriedCalls(storage, environment) :
             IamCall(who, call)
    \/ \E src \in Nodes, dst \in Nodes, port \in TriedPorts : Flow(src, dst, port)

Spec == Init /\ [][Next]_vars

----------------------------------------------------------------------------
(* Vocabulary of the properties *)

IsReadAction(a) == StartsWith(a, "s3:Get") \/ StartsWith(a, "s3:List")
IsWriteAction(a) ==
    StartsWith(a, "s3:Put") \/ StartsWith(a, "s3:Delete") \/ StartsWith(a, "s3:Abort")

S3Calls == { c \in Calls(storage, environment) : StartsWith(c[1], "s3:") }
SecretCalls == { c \in Calls(storage, environment) : StartsWith(c[1], "secretsmanager:") }
ArnsOf(bucket) == { BucketArn(bucket), ObjectArn(bucket) }

May(who, call) == Allowed(iam.principals[who], call[1], call[2])

\* who holds some write action on the bucket
WritesBucket(who, bucket) ==
    \E c \in S3Calls : c[2] \in ArnsOf(bucket) /\ IsWriteAction(c[1]) /\ May(who, c)

Saw(kind, who, action, resource, port, decision) ==
    observed = [ kind |-> kind, who |-> who, action |-> action,
                 resource |-> resource, port |-> port, decision |-> decision ]

----------------------------------------------------------------------------
(* Properties *)

\* C1: a request is forwarded to the target group only on the port-443
\* listener and only after it passed the OIDC authentication action; a request
\* without a valid session is answered with the redirect to the authorization
\* endpoint (or, on port 80, with the redirect to HTTPS) and is never forwarded;
\* in every listener's chain each forward action comes after an
\* authenticate-oidc action.
ForwardOnlyAfterAuthentication ==
    compute # NoStack =>
        /\ \A l \in compute.listeners :
             \A i \in 1..Len(l.defaultAction) :
                l.defaultAction[i].type = "forward" =>
                    \E j \in 1..(i - 1) : l.defaultAction[j].type = "authenticate-oidc"
        /\ (req # NoReq /\ req.result = "forwarded") =>
              req.port = 443 /\ req.authenticated /\ req.session
        /\ (req # NoReq /\ ~req.session) =>
              /\ req.result \in {"pending", "authorize", "HTTP_301"}
              /\ ~req.authenticated
              /\ (req.port = 443 /\ req.result # "pending") => req.result = "authorize"

ForwardedAfterLogin ==
    req # NoReq /\ req.result = "forwarded" /\ req.authenticated /\ req.port = 443

\* C2: the port-80 listener's only action is a permanent (301) redirect to
\* HTTPS port 443, and a request that arrived on port 80 is answered with that
\* redirect: it is never forwarded.
HttpListenerRedirectsToHttps ==
    compute # NoStack =>
        /\ ListenerOn(compute, 80).defaultAction =
              << [ type |-> "redirect", protocol |-> "HTTPS", port |-> "443",
                   statusCode |-> "HTTP_301" ] >>
        /\ (req # NoReq /\ req.port = 80) =>
              /\ req.result \in {"pending", "HTTP_301"}
              /\ req.result = "HTTP_301" => req.location = "HTTPS:443"

RedirectedFromHttp ==
    req # NoReq /\ req.port = 80 /\ req.result = "HTTP_301"

\* C3: the on-premises user's policy is one statement allowing s3:PutObject and
\* s3:PutObjectAcl on <raw bucket arn>/*; of all S3 and secret calls it is
\* allowed exactly PutObject and PutObjectAcl on raw-bucket objects, so get,
\* delete and list on the raw bucket and everything on the derived bucket are
\* denied.
OnPremiseUserPutOnly ==
    iam # NoStack =>
        LET user == iam.principals.onPremiseUser
            raw  == storage.rawDataBucket
        IN /\ user.managedPolicies = {}
           /\ user.statements =
                { [ effect |-> "Allow",
                    actions |-> {"s3:PutObject", "s3:PutObjectAcl"},
                    resources |-> { "arn:aws:s3:::" \o raw.bucketName \o "/*" } ] }
           /\ \A c \in Calls(storage, environment) :
                May("onPremiseUser", c) <=>
                    /\ c[1] \in {"s3:PutObject", "s3:PutObjectAcl"}
                    /\ c[2] = ObjectArn(raw)
           /\ (observed.kind = "iam" /\ observed.who = "onPremiseUser") =>
                (observed.decision = "Allow" <=>
                    /\ observed.action \in {"s3:PutObject", "s3:PutObjectAcl"}
                    /\ observed.resource = ObjectArn(raw))

OnPremiseGetDenied ==
    /\ iam # NoStack
    /\ May("onPremiseUser", <<"s3:PutObject", ObjectArn(storage.rawDataBucket)>>)
    /\ Saw("iam", "onPremiseUser", "s3:GetObject", ObjectArn(storage.rawDataBucket),
           0, "AccessDenied")

\* C4: the task role, which is the role the container runs with, is allowed
\* only read actions on the raw bucket and both reads and writes on the derived
\* bucket, and the principals allowed some write action on the raw bucket are
\* exactly the on-premises user and the function execution role.
RawBucketNotWritableByContainer ==
    iam # NoStack =>
        LET raw     == storage.rawDataBucket
            derived == storage.derivedDataBucket
        IN /\ \A c \in S3Calls :
                (c[2] \in ArnsOf(raw) /\ May("fargateTaskRole", c)) => IsReadAction(c[1])
           /\ May("fargateTaskRole", <<"s3:GetObject", ObjectArn(raw)>>)
           /\ May("fargateTaskRole", <<"s3:GetObject", ObjectArn(derived)>>)
           /\ May("fargateTaskRole", <<"s3:PutObject", ObjectArn(derived)>>)
           /\ { p \in PrincipalIds : WritesBucket(p, raw) } =
                {"onPremiseUser", "lambdaExecutionRole"}
           /\ compute # NoStack => compute.taskDefinition.taskRole = "fargateTaskRole"

ContainerPutOnRawDenied ==
    /\ compute # NoStack
    /\ Saw("iam", "fargateTaskRole", "s3:PutObject", ObjectArn(storage.rawDataBucket),
           0, "AccessDenied")

\* C5: no principal of SecretsAndIamStack other than the transformation role
\* holds both a write action on the raw bucket and a write action on the
\* derived bucket.
NoPrincipalWritesRawAndDerived ==
    iam # NoStack =>
        \A p \in PrincipalIds \ {"dataTransformationRole"} :
            ~(WritesBucket(p, storage.rawDataBucket)
                /\ WritesBucket(p, storage.derivedDataBucket))

RawWriterDeniedOnDerived ==
    /\ iam # NoStack
    /\ WritesBucket("lambdaExecutionRole", storage.rawDataBucket)
    /\ Saw("iam", "lambdaExecutionRole", "s3:PutObject",
           ObjectArn(storage.derivedDataBucket), 0, "AccessDenied")

\* C6: the function execution role is allowed S3 calls only on the raw bucket
\* and only write actions there (no read of a raw object, nothing on the
\* derived bucket), and its secret access is exactly GetSecretValue on the
\* secrets whose name starts with <project>/api/.
LambdaExecutionRoleWriteOnly ==
    iam # NoStack =>
        LET raw == storage.rawDataBucket
        IN /\ \A c \in S3Calls :
                May("lambdaExecutionRole", c) =>
                    c[2] \in ArnsOf(raw) /\ IsWriteAction(c[1])
           /\ May("lambdaExecutionRole", <<"s3:PutObject", ObjectArn(raw)>>)
           /\ \A c \in SecretCalls :
                May("lambdaExecutionRole", c) <=>
                    /\ c[1] = "secretsmanager:GetSecretValue"
                    /\ StartsWith(c[2],
                          "arn:aws:secretsmanager:eu-west-2:564175397198:secret:marimo-platform/api/")

LambdaReadOfRawDenied ==
    /\ iam # NoStack
    /\ May("lambdaExecutionRole", <<"secretsmanager:GetSecretValue", ApiSecretArn>>)
    /\ Saw("iam", "lambdaExecutionRole", "s3:GetObject",
           ObjectArn(storage.rawDataBucket), 0, "AccessDenied")

\* C7: both buckets of StorageStack have all four public-access blocks on and
\* an encryption mode set.
BucketsPrivateAndEncrypted ==
    storage # NoStack =>
        \A b \in { storage.rawDataBucket, storage.derivedDataBucket } :
            /\ b.blockPublicAccess.blockPublicAcls
            /\ b.blockPublicAccess.blockPublicPolicy
            /\ b.blockPublicAccess.ignorePublicAcls
            /\ b.blockPublicAccess.restrictPublicBuckets
            /\ b.encryption \in {"S3_MANAGED", "KMS_MANAGED", "KMS", "DSSE_MANAGED", "DSSE"}

BucketsDeclared ==
    /\ storage # NoStack
    /\ storage.rawDataBucket.bucketName # storage.derivedDataBucket.bucketName

IngressContract ==
    network # NoStack =>
        LET g == network.securityGroups
            rule(kind, ref, port) ==
                [ peer |-> [ kind |-> kind, ref |-> ref ], protocol |-> "tcp",
                  port |-> port ]
        IN /\ g.alb.ingress = { rule("cidr", "0.0.0.0/0", 80),
                                rule("cidr", "0.0.0.0/0", 443) }
           /\ g.fargate.ingress = { rule("sg", "alb", 8080) }
           /\ g.efs.ingress = { rule("sg", "fargate", 2049) }
           /\ ~g.efs.allowAllOutbound
           /\ g.lambda.ingress = {}
           /\ g.lambda.allowAllOutbound

LoadBalancerReachesContainer ==
    /\ compute # NoStack
    /\ Saw("flow", "alb", "tcp", "fargate", 8080, "accept")

Twice(R) ==
    R \cup { <<a, c>> \in StackIds \X StackIds :
               \E b \in StackIds : <<a, b>> \in R /\ <<b, c>> \in R }

Paths(R) == Twice(Twice(Twice(R)))

\* C11 as stated: every stack is constructed after the stacks whose handles
\* its props take; when the entry point has run, every consumer (Storage,
\* SecretsAndIam and Compute) has declared each of its producers with
\* addDependency and the declared dependencies have no cycle; and no stack is
\* deployed while a stack whose handle it references is not.
EveryConsumerDeclaresItsProducers ==
    /\ \A r \in HandleReferences :
          StackOf(r[1]) # NoStack => StackOf(r[2]) # NoStack
    /\ pc = "done" => HandleReferences \subseteq deps
    /\ \A id \in StackIds : <<id, id>> \notin Paths(deps)
    /\ \A r \in HandleReferences :
          stacks[r[1]] = "CREATE_COMPLETE" => stacks[r[2]] = "CREATE_COMPLETE"

\* What holds of C11: the same, with the declarations those of the stacks the
\* entry point constructs (storage on network, secrets-iam on storage).
ConstructedConsumersDeclareTheirProducers ==
    /\ \A r \in HandleReferences :
          StackOf(r[1]) # NoStack => StackOf(r[2]) # NoStack
    /\ \A r \in HandleReferences :
          (StackOf(r[1]) # NoStack /\ ResourceName(environment, r[1]) \in assembly)
              => r \in deps
    /\ deps \subseteq HandleReferences
    /\ \A id \in StackIds : <<id, id>> \notin Paths(deps)
    /\ \A r \in HandleReferences :
          stacks[r[1]] = "CREATE_COMPLETE" => stacks[r[2]] = "CREATE_COMPLETE"

AllDeployedInOrder ==
    \A id \in {"network", "dns", "storage", "secrets-iam"} :
        stacks[id] = "CREATE_COMPLETE"

\* C12 as stated: the step that constructs StorageStack, SecretsAndIamStack
\* or ComputeStack leaves every stack constructed before it as it was: the
\* buckets, the file system, the security groups and the roles are unchanged.
ConstructorsLeaveUpstreamUnchanged ==
    [][ /\ (storage = NoStack /\ storage' # NoStack) =>
              network' = network /\ dns' = dns
        /\ (iam = NoStack /\ iam' # NoStack) =>
              network' = network /\ dns' = dns /\ storage' = storage
        /\ (compute = NoStack /\ compute' # NoStack) =>
              network' = network /\ dns' = dns /\ storage' = storage /\ iam' = iam
      ]_vars

\* What holds of C12: constructing ComputeStack changes the execution role,
\* which gains the log driver's statement, and nothing else upstream; the
\* security group rules its constructs ask for are rules NetworkStack already
\* declared.
OnlyExecutionRoleGainsAGrant ==
    [][ /\ (storage = NoStack /\ storage' # NoStack) =>
              network' = network /\ dns' = dns
        /\ (iam = NoStack /\ iam' # NoStack) =>
              network' = network /\ dns' = dns /\ storage' = storage
        /\ (compute = NoStack /\ compute' # NoStack) =>
              /\ network' = network /\ dns' = dns /\ storage' = storage
              /\ iam'.onPremiseCredentials = iam.onPremiseCredentials
              /\ \A who \in PrincipalIds \ {"fargateTaskExecutionRole"} :
                    iam'.principals[who] = iam.principals[who]
              /\ iam'.principals.fargateTaskExecutionRole.statements =
                    iam.principals.fargateTaskExecutionRole.statements
                      \cup { [ effect    |-> "Allow",
                               actions   |-> {"logs:CreateLogStream", "logs:PutLogEvents"},
                               resources |-> { "arn:aws:logs:eu-west-2:564175397198:log-group:/ecs/"
                                                 \o CONFIG.projectName \o "-" \o environment
                                                 \o "-marimo:*" } ] }
              /\ iam'.principals.fargateTaskExecutionRole.statements
                    # iam.principals.fargateTaskExecutionRole.statements
      ]_vars

TornDown == {"DELETE_COMPLETE", "DELETE_FAILED"}

\* C13 as stated: once the storage stack was deployed the raw bucket exists,
\* whatever is deployed or torn down afterwards; and after a teardown the
\* derived bucket, the file system, its access point and the on-premises
\* credentials secret do not exist.
TeardownKeepsOnlyTheRawBucket ==
    /\ stacks["storage"] # "NONE" => storage.rawDataBucket.bucketName \in cloud
    /\ stacks["storage"] \in TornDown =>
         /\ storage.derivedDataBucket.bucketName \notin cloud
         /\ storage.fileSystem.fileSystemName \notin cloud
         /\ ResourceName(environment, "storage") \o "/AccessPoint" \notin cloud
    /\ stacks["secrets-iam"] \in TornDown =>
         iam.onPremiseCredentials.secretName \notin cloud

\* What holds of C13: the raw bucket is retained, the file system, the access
\* point and the secret are deleted, and the derived bucket is deleted exactly
\* when the teardown finds it empty; with an object in it the teardown fails
\* and leaves it.
TeardownKeepsANonEmptyDerivedBucket ==
    /\ stacks["storage"] # "NONE" => storage.rawDataBucket.bucketName \in cloud
    /\ stacks["storage"] \in TornDown =>
         /\ storage.fileSystem.fileSystemName \notin cloud
         /\ ResourceName(environment, "storage") \o "/AccessPoint" \notin cloud
         /\ storage.derivedDataBucket.bucketName \in cloud
               <=> stacks["storage"] = "DELETE_FAILED"
    /\ stacks["secrets-iam"] \in TornDown =>
         /\ stacks["secrets-iam"] = "DELETE_COMPLETE"
         /\ iam.onPremiseCredentials.secretName \notin cloud

DerivedBucketOutlivesTeardown ==
    /\ stacks["storage"] = "DELETE_FAILED"
    /\ storage.derivedDataBucket.bucketName \in cloud

InBucket(b) == object # NoObject /\ object.bucket = storage[b].bucketName

\* C14: the derived bucket's rule moves an object to infrequent access after
\* 60 days, to the cold archive after 180 and expires it after 365, with
\* 60 < 180 < 365; an object of the derived bucket that is d days old is in
\* STANDARD for d < 60, INFREQUENT_ACCESS for 60 <= d < 180, GLACIER for
\* 180 <= d < 365, and on day 365 it is deleted; a step never takes the
\* object to a warmer class.
DerivedObjectAgesThroughColderClasses ==
    /\ [](storage # NoStack =>
            LET bucket == storage.derivedDataBucket
            IN /\ bucket.expiration = {365}
               /\ bucket.transitions =
                    { [ storageClass |-> "INFREQUENT_ACCESS", days |-> 60 ],
                      [ storageClass |-> "GLACIER", days |-> 180 ] }
               /\ \A t \in bucket.transitions, u \in bucket.transitions :
                    Coldness(t.storageClass) < Coldness(u.storageClass)
                        => t.days < u.days
               /\ \A t \in bucket.transitions, e \in bucket.expiration : t.days < e)
    /\ [](InBucket("derivedDataBucket") =>
            /\ object.age < 365
            /\ object.age < 60 => object.storageClass = "STANDARD"
            /\ (60 <= object.age /\ object.age < 180) =>
                  object.storageClass = "INFREQUENT_ACCESS"
            /\ (180 <= object.age /\ object.age < 365) =>
                  object.storageClass = "GLACIER")
    /\ [][ (InBucket("derivedDataBucket") /\ object' # object) =>
              IF object.age >= 364
              THEN object' = NoObject
              ELSE /\ object'.bucket = object.bucket
                   /\ object'.age = object.age + 1
                   /\ Coldness(object'.storageClass) >= Coldness(object.storageClass)
         ]_vars

DerivedObjectAboutToExpire ==
    /\ InBucket("derivedDataBucket")
    /\ object.age = 364
    /\ object.storageClass = "GLACIER"

RawObjectStandardFor180Days ==
    (InBucket("rawDataBucket") /\ object.age < 180) =>
        object.storageClass = "STANDARD"

RawObjectInfrequentAtDay90 ==
    /\ InBucket("rawDataBucket")
    /\ object.age = 90
    /\ object.storageClass = "INFREQUENT_ACCESS"

ConstructedStacks == { s \in {network, dns, storage, iam, compute} : s # NoStack }

TagKeys ==
    { "Project", "Environment", "ManagedBy", "Owner", "IaC", "Repository",
      "Component" }

KeysOf(tags) == { t[1] : t \in tags }

ComponentsAreStackSpecific ==
    /\ network # NoStack => network.component = "network"
    /\ dns # NoStack     => dns.component = "dns"
    /\ storage # NoStack => storage.component = "storage"
    /\ iam # NoStack     => iam.component = "iam"
    /\ compute # NoStack => compute.component = "compute"
    /\ \A s, t \in ConstructedStacks : s # t => s.component # t.component

DocumentedStackNames(env) ==
    { ResourceName(env, "network"), ResourceName(env, "dns"),
      ResourceName(env, "storage"), ResourceName(env, "secrets-iam"),
      ResourceName(env, "compute"), ResourceName(env, "ingestion") }

\* C18 as stated: after app.synth() the cloud assembly holds the six stacks
\* of the documented deployment order.
SynthesizedAllSixStacks ==
    pc = "done" => DocumentedStackNames(environment) \subseteq assembly

SynthesizedWithoutComputeAndIngestion ==
    /\ pc = "done"
    /\ ResourceName(environment, "compute") \notin assembly
    /\ ResourceName(environment, "ingestion") \notin assembly
    /\ stacks["secrets-iam"] = "CREATE_COMPLETE"
    /\ stacks["compute"] = "NONE"

\* The secrets the OIDC actions of ComputeStack's listeners read.
ReferencedSecrets(comp) ==
    UNION { { l.defaultAction[i].clientIdSecret,
              l.defaultAction[i].clientSecretSecret } :
            <<l, i>> \in { <<m, j>> \in comp.listeners \X (1..2) :
                             /\ j \in DOMAIN m.defaultAction
                             /\ m.defaultAction[j].type = "authenticate-oidc" } }

\* C19 as stated: the execution role may read each secret ComputeStack
\* references, which are the two Okta secrets, may read no other secret, and
\* may do nothing but read on a secret.
ExecutionRoleReadsExactlyTheOktaSecrets ==
    (iam # NoStack /\ compute # NoStack) =>
        LET role == iam.principals[compute.taskDefinition.executionRole]
        IN  /\ ReferencedSecrets(compute) = OktaSecretArns
            /\ \A arn \in ReferencedSecrets(compute) :
                  Allowed(role, "secretsmanager:GetSecretValue", arn)
            /\ \A arn \in SecretArns(environment) \ ReferencedSecrets(compute) :
                  ~Allowed(role, "secretsmanager:GetSecretValue", arn)
            /\ \A arn \in SecretArns(environment) :
                  ~Allowed(role, "secretsmanager:PutSecretValue", arn)

ExecutionRoleCannotReadTheClientId ==
    /\ iam # NoStack /\ compute # NoStack
    /\ CONFIG.okta.clientIdSecretArn \in ReferencedSecrets(compute)
    /\ ~Allowed(iam.principals[compute.taskDefinition.executionRole],
                "secretsmanager:GetSecretValue", CONFIG.okta.clientIdSecretArn)

EndsWith(s, p) == Len(p) <= Len(s) /\ SubSeq(s, Len(s) - Len(p) + 1, Len(s)) = p

\* The service segment a stack's names may carry: the stack's Component, or
\* for SecretsAndIamStack its stack id as well.
ServiceNames(stack) ==
    IF stack.component = "iam" THEN {"iam", "secrets-iam"} ELSE { stack.component }

\* {project}-{environment}-{service}-{resource-type}, with the account id as
\* suffix for a bucket and for nothing else.
FollowsNamingConvention(stack, res) ==
    /\ \E service \in ServiceNames(stack) :
          /\ StartsWith(res.name, ResourceName(environment, service) \o "-")
          /\ Len(res.name) > Len(ResourceName(environment, service) \o "-")
    /\ EndsWith(res.name, "-" \o CONFIG.env.account) <=> res.type = "AWS::S3::Bucket"

NamedResourcesOf(stack) == { r \in ResourcesOf(stack) : r.name # "" }

\* C20 as stated: every explicitly named resource of every stack is named
\* {project}-{environment}-{service}-{resource-type} with the service of its
\* stack, and only the buckets end with the account id.
EveryNameFollowsTheConvention ==
    \A s \in ConstructedStacks : \A r \in NamedResourcesOf(s) :
        FollowsNamingConvention(s, r)

\* C20, the part that holds: the named resources of NetworkStack, DnsStack
\* and StorageStack follow the convention.
NetworkDnsStorageNamesFollowTheConvention ==
    \A s \in ConstructedStacks \cap {network, dns, storage} :
        \A r \in NamedResourcesOf(s) : FollowsNamingConvention(s, r)

ExecutionRoleNamedWithoutService ==
    /\ iam # NoStack
    /\ environment = "dev"
    /\ \E r \in NamedResourcesOf(iam) :
          /\ r.name = CONFIG.projectName \o "-dev-fargate-exec-role"
          /\ ~FollowsNamingConvention(iam, r)

LoadBalancerNamedWithoutService ==
    /\ compute # NoStack
    /\ \E r \in NamedResourcesOf(compute) :
          /\ r.name = ResourceName(environment, "alb")
          /\ ~FollowsNamingConvention(compute, r)

----------------------------------------------------------------------------
(* The scratch volume *)

EfsClientActions ==
    { "elasticfilesystem:ClientMount", "elasticfilesystem:ClientWrite",
      "elasticfilesystem:ClientRootAccess" }

FileSystemArn(fileSystem) ==
    "arn:aws:elasticfilesystem:" \o Tpl(CONFIG.env, "region") \o ":"
        \o Tpl(CONFIG.env, "account") \o ":file-system/" \o fileSystem.fileSystemName

\* The resource policy of new efs.FileSystem(...). StorageStack passes no
\* fileSystemPolicy and no allowAnonymousAccess and calls no grant, so the
\* policy is the construct's default: none when the application's feature
\* flag @aws-cdk/aws-efs:denyAnonymousAccess is off, and with the flag on one
\* statement that allows every principal to write and to have root access
\* through a mount target, but not to mount.
FileSystemPolicy(denyAnonymousAccess) ==
    IF denyAnonymousAccess
    THEN { Allow({"elasticfilesystem:ClientWrite",
                  "elasticfilesystem:ClientRootAccess"}, {"*"}) }
    ELSE {}

\* authorizationConfig.iam: 'ENABLED': the mount is made with the task role's
\* credentials. A file system without a policy admits every client; with a
\* policy, an action is allowed when the policy or the role allows it.
EfsAuthorized(role, action, fileSystem, policy) ==
    \/ policy = {}
    \/ \E st \in policy : \E a \in st.actions : Glob(a, action)
    \/ Allowed(role, action, FileSystemArn(fileSystem))

ScratchVolumeDeclaredReadWrite ==
    /\ compute.taskDefinition.container.mountPath = "/app/scratch"
    /\ ~compute.taskDefinition.container.readOnly
    /\ compute.taskDefinition.volume.fileSystemName = storage.fileSystem.fileSystemName
    /\ compute.taskDefinition.volume.accessPointPath = "/scratch"
    /\ compute.taskDefinition.volume.transitEncryption = "ENABLED"
    /\ compute.taskDefinition.volume.iam = "ENABLED"
    /\ storage.accessPoint.path = "/scratch"
    /\ storage.accessPoint.posixUid = "1000" /\ storage.accessPoint.posixGid = "1000"
    /\ storage.accessPoint.ownerUid = "1000" /\ storage.accessPoint.ownerGid = "1000"
    /\ storage.accessPoint.permissions = "755"
    /\ \A g \in compute.service.securityGroups :
          FlowAllowed(network.securityGroups, g,
                      storage.fileSystem.securityGroup, NfsPort)

\* C21 as stated: the container's mount is read-write, goes through the
\* access point /scratch (uid/gid 1000, mode 755) with transit encryption and
\* IAM authorization, the compute group reaches the storage group on the
\* file-system port, and the task role is authorized to mount and write the
\* file system, whichever way the feature flag is set.
ContainerReadsAndWritesScratch ==
    compute # NoStack =>
        /\ ScratchVolumeDeclaredReadWrite
        /\ \A flag \in BOOLEAN :
              \A a \in {"elasticfilesystem:ClientMount", "elasticfilesystem:ClientWrite"} :
                  EfsAuthorized(iam.principals[compute.taskDefinition.taskRole], a,
                                storage.fileSystem, FileSystemPolicy(flag))

\* C21, the part that holds: everything but the task role's authorization.
ScratchVolumeMountedReadWrite ==
    compute # NoStack => ScratchVolumeDeclaredReadWrite

TaskRoleMayNotMountScratch ==
    /\ compute # NoStack
    /\ ScratchVolumeDeclaredReadWrite
    /\ \A st \in StatementsOf(iam.principals[compute.taskDefinition.taskRole]) :
          \A a \in st.actions : \A e \in EfsClientActions : ~Glob(a, e)
    /\ ~EfsAuthorized(iam.principals[compute.taskDefinition.taskRole],
                      "elasticfilesystem:ClientMount", storage.fileSystem,
                      FileSystemPolicy(TRUE))

----------------------------------------------------------------------------
(* Calls to the provider's services from the private subnets *)

\* A call on port 443 from a member of a security group placed in a subnet
\* tier to the service of an endpoint. A gateway endpoint is a route in the
\* route tables of its subnets; an interface endpoint is a network interface
\* in its subnets, reached from the whole VPC under the service's name when
\* private DNS is enabled, behind the endpoint's own group.
EndpointAdmits(endpoint, group, subnetType) ==
    /\ EgressAllows(group)
    /\ CASE endpoint.type = "Gateway"   -> endpoint.subnets = subnetType
         [] endpoint.type = "Interface" -> endpoint.privateDnsEnabled /\ endpoint.open
         [] OTHER -> FALSE

\* s3, the registry's API and image layers, secrets, log delivery
PrivateServices == { "s3", "ecr.api", "ecr.dkr", "secretsmanager", "logs" }

\* C22: for each of object storage, container registry (API and layers),
\* secret storage and log delivery the network declares a gateway or
\* interface endpoint in the private subnets, and a call from the compute or
\* the function security group in a private subnet is admitted through it.
PrivateWorkloadsReachServicesThroughEndpoints ==
    network # NoStack =>
        \A service \in PrivateServices :
            \E e \in network.vpc.endpoints :
                /\ e.service = service
                /\ e.type \in {"Gateway", "Interface"}
                /\ e.subnets = "PRIVATE_WITH_EGRESS"
                /\ \A g \in {"fargate", "lambda"} :
                      EndpointAdmits(e, network.securityGroups[g],
                                     "PRIVATE_WITH_EGRESS")

ServiceInPrivateSubnetsWithEndpoints ==
    /\ network # NoStack /\ compute # NoStack
    /\ compute.service.subnets = "PRIVATE_WITH_EGRESS"
    /\ ~compute.service.assignPublicIp
    /\ \E e \in network.vpc.endpoints :
          /\ e.service = "logs"
          /\ \A g \in compute.service.securityGroups :
                EndpointAdmits(e, network.securityGroups[g], compute.service.subnets)

----------------------------------------------------------------------------
(* The domain name *)

\* The name Route 53 stores for a record set: a recordName that ends with a
\* dot is kept, one that ends with the zone's name gets the dot, any other
\* gets the zone's name and the dot.
RecordFqdn(recordName, zoneName) ==
    IF EndsWith(recordName, ".") THEN recordName
    ELSE IF EndsWith(recordName, zoneName) THEN recordName \o "."
    ELSE recordName \o "." \o zoneName \o "."

\* C23: the certificate's domain, DnsStack's domainName handle, the alias
\* record bound to the load balancer and the application URL all name
\* subdomain.zone as configured, and DnsStack imports the zone and declares
\* none.
OneDomainNameAcrossStacks ==
    /\ dns # NoStack =>
          /\ dns.domainName =
                CONFIG.dns.subdomainName \o "." \o CONFIG.dns.hostedZoneName
          /\ dns.certificate.domainName = dns.domainName
          /\ dns.hostedZone.imported
          /\ dns.hostedZone.zoneName = CONFIG.dns.hostedZoneName
          /\ dns.hostedZone.hostedZoneId = CONFIG.dns.hostedZoneId
          /\ \A r \in ResourcesOf(dns) : r.type # "AWS::Route53::HostedZone"
    /\ compute # NoStack =>
          /\ RecordFqdn(compute.aliasRecord.recordName, compute.aliasRecord.zoneName)
                = dns.domainName \o "."
          /\ compute.aliasRecord.zoneName = dns.hostedZone.zoneName
          /\ compute.aliasRecord.target = compute.loadBalancer.loadBalancerName
          /\ compute.applicationUrl = "https://" \o dns.certificate.domainName
          /\ \A r \in ResourcesOf(compute) : r.type # "AWS::Route53::HostedZone"

AliasRecordNamesTheCertificateDomain ==
    /\ dns # NoStack /\ compute # NoStack
    /\ compute.aliasRecord.recordName = dns.certificate.domainName
    /\ RecordFqdn(compute.aliasRecord.recordName, compute.aliasRecord.zoneName)
          = "notebooks.justmakeit.click."
    /\ compute.applicationUrl = "https://notebooks.justmakeit.click"

----------------------------------------------------------------------------
(* The application port *)

\* The ports a group admits from a member of another group by a rule that
\* names that group.
PortsAdmittedFrom(group, src) ==
    { rule.port : rule \in { r \in group.ingress : r.peer = SgPeer(src) } }

\* C24: the target group's port, the container's one port mapping and the
\* port the compute group admits from the load balancer's group are equal,
\* and a request the load balancer forwards is admitted by the compute group
\* on the container's port.
OneApplicationPort ==
    compute # NoStack =>
        LET port == compute.taskDefinition.container.containerPort
            lb   == compute.loadBalancer.securityGroup
        IN  /\ compute.targetGroup.port = port
            /\ compute.service.attachedTo = compute.targetGroup.targetGroupName
            /\ \A g \in compute.service.securityGroups :
                  /\ PortsAdmittedFrom(network.securityGroups[g], lb) = { port }
                  /\ req.result = "forwarded" =>
                        FlowAllowed(network.securityGroups, lb, g,
                                    compute.targetGroup.port)

ForwardedRequestReachesContainerPort ==
    /\ compute # NoStack
    /\ req.result = "forwarded"
    /\ compute.targetGroup.port = 8080
    /\ FlowAllowed(network.securityGroups, "alb", "fargate",
                   compute.taskDefinition.container.containerPort)

----------------------------------------------------------------------------
(* The configuration object *)

\* The other configuration object of the repository: it has the Okta secret
\* names, and neither env nor the secret ARNs.
ConfigWithSecretNames ==
    [ projectName     |-> "mplat",
      projectFullName |-> "marimo-platform",
      tags |-> [ Project    |-> "marimo-platform",
                 ManagedBy  |-> "cdk",
                 Owner      |-> "data-team",
                 IaC        |-> "true",
                 Repository |-> "aws-notebooks" ],
      dns  |-> [ hostedZoneId   |-> "Z08606083CKBAN2V5VVVT",
                 hostedZoneName |-> "justmakeit.click",
                 subdomainName  |-> "notebooks" ],
      okta |-> [ issuer |-> "https://integrator-6693679.okta.com/oauth2/default",
                 clientIdSecretName     |-> "marimo-platform/okta/client-id",
                 clientSecretSecretName |-> "marimo-platform/okta/client-secret" ],
      storage |-> [ rawDataLifecycle |-> [ transitionToIA          |-> 90,
                                           transitionToGlacier     |-> 180,
                                           transitionToDeepArchive |-> 365 ],
                    scratchSizeGB |-> 2 ] ]

\* The property paths the stacks and bin/app.ts read from CONFIG.
ConfigReads ==
    { <<"projectName">>, <<"projectFullName">>,
      <<"env", "account">>, <<"env", "region">>,
      <<"tags", "Project">>, <<"tags", "ManagedBy">>, <<"tags", "Owner">>,
      <<"tags", "IaC">>, <<"tags", "Repository">>,
      <<"dns", "hostedZoneId">>, <<"dns", "hostedZoneName">>,
      <<"dns", "subdomainName">>,
      <<"okta", "issuer">>,
      <<"okta", "clientIdSecretName">>, <<"okta", "clientSecretSecretName">>,
      <<"okta", "clientIdSecretArn">>, <<"okta", "clientSecretSecretArn">>,
      <<"storage", "rawDataLifecycle", "transitionToIA">>,
      <<"storage", "rawDataLifecycle", "transitionToGlacier">>,
      <<"storage", "rawDataLifecycle", "transitionToDeepArchive">> }

\* obj.a.b.c is defined when each property on the way exists.
RECURSIVE Defined(_, _)
Defined(obj, path) ==
    \/ path = << >>
    \/ /\ Head(path) \in DOMAIN obj
       /\ Defined(obj[Head(path)], Tail(path))

Contains(s, sub) ==
    \E i \in 1..(Len(s) - Len(sub) + 1) : SubSeq(s, i, i + Len(sub) - 1) = sub

\* The names, ARNs and policy resources SecretsAndIamStack builds from CONFIG.
IamStrings(iamS) ==
    { iamS.principals[p].name : p \in DOMAIN iamS.principals }
      \cup UNION { st.resources :
                   st \in UNION { iamS.principals[p].statements :
                                  p \in DOMAIN iamS.principals } }
      \cup { iamS.onPremiseCredentials.secretName }

\* C25 as stated: one configuration object defines every property the stacks
\* and the entry point read, and no name, ARN or policy resource of a
\* constructed stack is built from an undefined value.
ConfigDefinesEveryFieldRead ==
    iam # NoStack =>
        /\ \E cfg \in {CONFIG, ConfigWithSecretNames} :
              \A path \in ConfigReads : Defined(cfg, path)
        /\ \A str \in IamStrings(iam) : ~Contains(str, "undefined")

\* C25, the part that holds: the configuration object defines every property
\* read but the two Okta secret names.
ConfigDefinesAllButTheSecretNames ==
    \A path \in ConfigReads :
        Defined(CONFIG, path) <=>
            path \notin { <<"okta", "clientIdSecretName">>,
                          <<"okta", "clientSecretSecretName">> }

ExecutionRolePolicyBuiltFromUndefined ==
    /\ iam # NoStack
    /\ ~Defined(CONFIG, <<"okta", "clientIdSecretName">>)
    /\ \E st \in iam.principals.fargateTaskExecutionRole.statements :
          SecretArnPrefix \o "undefined*" \in st.resources

----------------------------------------------------------------------------
(* Identifiers visible outside a stack *)

\* The id bin/app.ts (and the README, for ComputeStack) gives a stack, after
\* project and environment.
StackIdOf(stack) ==
    IF stack.component = "iam" THEN "secrets-iam" ELSE stack.component

\* The exportName of every CfnOutput of a stack, after project and
\* environment.
ExportSuffixes(stack) ==
    CASE stack.component = "network" ->
           { "vpc-id", "alb-sg-id", "fargate-sg-id", "efs-sg-id", "lambda-sg-id" }
      [] stack.component = "dns" ->
           { "hosted-zone-id", "domain-name", "certificate-arn" }
      [] stack.component = "storage" ->
           { "raw-bucket-name", "raw-bucket-arn", "derived-bucket-name",
             "derived-bucket-arn", "efs-id", "efs-access-point-id" }
      [] stack.component = "iam" ->
           { "fargate-exec-role-arn", "fargate-task-role-arn",
             "lambda-exec-role-arn", "transform-role-arn", "onpremise-user" }
      [] stack.component = "compute" ->
           { "alb-dns", "app-url", "cluster-name", "service-name" }
      [] OTHER -> {}

\* The identifiers a stack constructed for an environment declares, each with
\* its kind: the stack's name, the names of its resources (the log group's and
\* the secret's among them), its export names, the certificate's domain and
\* the record's name.
IdentifiersOf(env, stack) ==
    { <<"stack", ResourceName(env, StackIdOf(stack))>> }
      \cup { <<"export", ResourceName(env, x)>> : x \in ExportSuffixes(stack) }
      \cup { <<"name", r.name>> :
             r \in { n \in ResourcesOf(stack) :
                       n.name # "" /\ n.type # "AWS::Route53::RecordSet" } }
      \cup (IF stack.component = "dns"
            THEN { <<"domain", stack.certificate.domainName>> } ELSE {})
      \cup (IF stack.component = "compute"
            THEN { <<"record", RecordFqdn(stack.aliasRecord.recordName,
                                          stack.aliasRecord.zoneName)>> }
            ELSE {})

\* The five stacks as they are constructed for an environment.
StacksFor(env) ==
    LET net   == NetworkStack(env)
        dnsS  == DnsStack(env)
        stor  == StorageStack(env, net)
        iamS  == SecretsAndIamStack(env, stor.rawDataBucket, stor.derivedDataBucket)
    IN  { net, dnsS, stor, iamS,
          ComputeStack(ComputeStackProps(env, net, dnsS, stor, iamS)) }

IdentifiersFor(env) == UNION { IdentifiersOf(env, s) : s \in StacksFor(env) }

DeclaredIdentifiers ==
    UNION { IdentifiersOf(environment, s) : s \in ConstructedStacks }

\* C26 as stated: no identifier the constructed stacks declare for their
\* environment is declared by the stacks of any other environment.
EnvironmentsShareNoIdentifier ==
    \A other \in Environments \ {environment} :
        DeclaredIdentifiers \cap IdentifiersFor(other) = {}

\* C26, the part that holds: stack names, resource names (log group and
\* secret names included) and export names differ between environments; the
\* certificate's domain and the record's name are the same in all of them.
EnvironmentsShareOnlyTheDomain ==
    \A other \in Environments \ {environment} :
        \A i \in DeclaredIdentifiers \cap IdentifiersFor(other) :
            i[1] \in {"domain", "record"}

ProdRecordNamedAsDevRecord ==
    /\ compute # NoStack
    /\ environment = "prod"
    /\ <<"record", DomainName \o ".">> \in
          DeclaredIdentifiers \cap IdentifiersFor("dev")
    /\ <<"domain", DomainName>> \in DeclaredIdentifiers \cap IdentifiersFor("dev")

====
